---- MODULE Spec2Model ----
(***************************************************************************)
(* Model of silo (src/src/lib.rs): an append-only key-value store with one *)
(* index per log file, a foreground caller (set / get / delete), a         *)
(* background compactor thread and process restarts (Database::start on    *)
(* an existing data directory).                                            *)
(*                                                                         *)
(* Abstractions:                                                           *)
(*  - a log file is the sequence of its records; offsets are byte offsets  *)
(*    computed from the record layout of Log::append;                      *)
(*  - a Ulid is a pair <<time, random>>; Ulid::new() takes the next clock  *)
(*    tick, Ulid::increment adds one to the random part;                   *)
(*  - reading at an offset that is not a record boundary is a failed read  *)
(*    (short read or checksum mismatch);                                   *)
(*  - a failed append writes no bytes;                                     *)
(*  - damage to a stored record is a checksum mismatch: the record keeps   *)
(*    its length and Log::entry_at fails on it;                            *)
(*  - keys and values are strings of KeyLen and ValueLen bytes, numbered    *)
(*    1..N;                                                                *)
(*  - a compaction cycle visits the files that were in the directory when  *)
(*    fs::read_dir was called, in any order.                               *)
(***************************************************************************)
EXTENDS Integers, Sequences, FiniteSets, TLC

\* ---------------------------------------------------------------- bounds
NumKeys == 2
NumValues == 1
KeyLen == 1
ValueLen == 1
MaxAppends == 4
MaxCycles == 2
MaxRestarts == 1
MaxCorrupt == 1

\* Rollover threshold of Database::set, scaled down from 4 * 1024^3 so that
\* a rollover happens after two Set records.
MAX_FILE_SIZE_BYTES == 58

Keys == 1..NumKeys
Values == 1..NumValues
NoVal == 0

\* ---------------------------------------------------------------- records
\* A record as Log::append writes it; crc tells whether the stored checksum
\* still matches the bytes of the record.
SetRec(k, v) == [key |-> k, op |-> "Set", val |-> v, crc |-> "ok"]
DeleteRec(k) == [key |-> k, op |-> "Delete", val |-> NoVal, crc |-> "ok"]

\* Bytes Log::append writes for one record: checksum, timestamp, key
\* length, key, opcode and, for Set, value length and value.
RecSize(r) ==
    IF r.op = "Set" THEN 2 + 8 + 8 + KeyLen + 1 + 8 + ValueLen
                    ELSE 2 + 8 + 8 + KeyLen + 1

RECURSIVE FileSize(_)
FileSize(f) == IF f = <<>> THEN 0 ELSE RecSize(Head(f)) + FileSize(Tail(f))

\* Byte offset at which record i of file f starts.
OffsetOf(f, i) == FileSize(SubSeq(f, 1, i - 1))

\* Log::entry_at: the entry that begins at the offset, or a failure (no
\* record starts there, or its checksum does not match).
EntryAt(f, off) ==
    IF \E i \in 1..Len(f) : OffsetOf(f, i) = off /\ f[i].crc = "ok"
    THEN LET i == CHOOSE j \in 1..Len(f) : OffsetOf(f, j) = off
         IN  [ok |-> TRUE, offset |-> off, key |-> f[i].key, op |-> f[i].op,
              val |-> f[i].val, next |-> off + RecSize(f[i])]
    ELSE [ok |-> FALSE, offset |-> off, key |-> 0, op |-> "None",
          val |-> NoVal, next |-> off]

\* Entries::next repeated from pos: stops at the first failed entry_at.
RECURSIVE EntriesFrom(_, _)
EntriesFrom(f, pos) ==
    LET e == EntryAt(f, pos)
    IN  IF e.ok THEN <<e>> \o EntriesFrom(f, e.next) ELSE <<>>

Entries(f) == EntriesFrom(f, 0)

\* ---------------------------------------------------------------- index
Absent == [tag |-> "Absent", off |-> 0]
Tombstone == [tag |-> "Tombstone", off |-> 0]
Offset(o) == [tag |-> "Offset", off |-> o]

EmptyIndex == [k \in Keys |-> Absent]

\* The index Database::start and the swap of compact_logs build by replay.
RECURSIVE IndexOfEntries(_)
IndexOfEntries(es) ==
    IF es = <<>> THEN EmptyIndex
    ELSE LET e == es[Len(es)]
             rest == IndexOfEntries(SubSeq(es, 1, Len(es) - 1))
         IN  [rest EXCEPT ![e.key] =
                 IF e.op = "Set" THEN Offset(e.offset) ELSE Tombstone]

BuildIndex(f) == IndexOfEntries(Entries(f))

\* ---------------------------------------------------------------- ids
FirstId(t) == <<t, 0>>
Increment(id) == <<id[1], id[2] + 1>>
IdLess(a, b) == a[1] < b[1] \/ (a[1] = b[1] /\ a[2] < b[2])

\* Log::new_with_id: open with create + append; an existing file is kept.
WithFile(d, id) ==
    IF id \in DOMAIN d THEN d
    ELSE [x \in DOMAIN d \cup {id} |-> IF x = id THEN <<>> ELSE d[x]]

\* Log::append on the file behind a handle.
AppendRec(d, id, r) == [d EXCEPT ![id] = Append(@, r)]

\* ---------------------------------------------------------------- results
Res(t, v) == [tag |-> t, val |-> v]
ROk == Res("Ok", NoVal)
RErr == Res("Err", NoVal)
RPanic == Res("Panic", NoVal)
RNone == Res("None", NoVal)
RSome(v) == Res("Some", v)
Results == {ROk, RErr, RPanic, RNone} \cup {RSome(v) : v \in Values}

\* Database::get under both locks: walk the indices newest first; the log
\* read is logs[logs.len() - i - 1] for the i-th index from the end.
RECURSIVE GetFrom(_, _, _, _, _)
GetFrom(ls, is, d, key, i) ==
    IF i >= Len(is) THEN RNone
    ELSE LET e == is[Len(is) - i][key]
         IN  IF e.tag = "Absent" THEN GetFrom(ls, is, d, key, i + 1)
             ELSE IF e.tag = "Tombstone" THEN RNone
             ELSE LET r == EntryAt(d[ls[Len(ls) - i]], e.off)
                  IN  IF ~r.ok THEN RErr
                      ELSE IF r.op # "Set" THEN RErr
                      ELSE RSome(r.val)

GetResult(ls, is, d, key) == GetFrom(ls, is, d, key, 0)

\* Key of the record whose value Database::get returns for key (0 when it
\* returns no value): get matches on entry.operation only.
RECURSIVE GetKeyFrom(_, _, _, _, _)
GetKeyFrom(ls, is, d, key, i) ==
    IF i >= Len(is) THEN 0
    ELSE LET e == is[Len(is) - i][key]
         IN  IF e.tag = "Absent" THEN GetKeyFrom(ls, is, d, key, i + 1)
             ELSE IF e.tag = "Tombstone" THEN 0
             ELSE LET r == EntryAt(d[ls[Len(ls) - i]], e.off)
                  IN  IF r.ok /\ r.op = "Set" THEN r.key ELSE 0

\* ---------------------------------------------------------------- state
VARIABLES
    disk,         \* data directory: file id -> records of the file
    logs,         \* Database.logs: list of log handles (file ids)
    indices,      \* Database.indices: list of Index
    clock,        \* time part of the next Ulid::new()
    logsLock,     \* owner of the logs mutex: "free", "fg" or "compactor"
    indicesLock,  \* owner of the indices mutex
    poisoned,     \* both mutexes poisoned by a panic of their holder
    fgpc,         \* foreground caller: "idle", "lockIndices", "body", "panicked",
                  \* "noStore" (Database::start returned Err)
    cpc,          \* position of the compactor thread
    cpending,     \* directory entries the cycle has not visited yet
    cpath,        \* path of the segment being compacted
    cid,          \* compacted_id
    cpos,         \* pos found in the swap
    cindex,       \* index built in the swap
    expected,     \* history: per key, outcome of its last completed write
    everSet,      \* history: keys for which a set has completed
    appends,      \* history: records appended by foreground calls
    cycles,       \* history: compaction cycles started
    restarts,     \* history: restarts of the process
    halfSwapped,  \* history: a swap replaced the log and died before the index
    preSwapOK,    \* history: every get was right when the swap began
    delRun,       \* history: run of completed delete calls on one key
    cycleSnap,    \* history: get results when the running cycle started
    cycleQuiet    \* history: no foreground step or restart since it started

store == <<disk, logs, indices, clock>>
locks == <<logsLock, indicesLock, poisoned>>
fg == <<fgpc>>
clocal == <<cpending, cpath, cid, cpos, cindex>>
hist == <<expected, everSet, appends, cycles, restarts, halfSwapped,
          preSwapOK, delRun, cycleSnap, cycleQuiet>>
vars == <<store, locks, fg, cpc, clocal, hist>>

NoId == <<0, 0>>
NoRun == [key |-> 0, n |-> 0]
NoSnap == [k \in Keys |-> RNone]

\* What a get(key) issued now returns to its caller: lock().unwrap()
\* panics on a poisoned mutex.
GetOutcome(key) ==
    IF poisoned THEN RPanic ELSE GetResult(logs, indices, disk, key)

\* Database::start on an empty directory: one fresh log, one empty index,
\* the compactor thread spawned and asleep.
Init ==
    /\ disk = [id \in {FirstId(1)} |-> <<>>]
    /\ logs = <<FirstId(1)>>
    /\ indices = <<EmptyIndex>>
    /\ clock = 2
    /\ logsLock = "free"
    /\ indicesLock = "free"
    /\ poisoned = FALSE
    /\ fgpc = "idle"
    /\ cpc = "sleep"
    /\ cpending = {}
    /\ cpath = NoId
    /\ cid = NoId
    /\ cpos = 0
    /\ cindex = EmptyIndex
    /\ expected = [k \in Keys |-> RNone]
    /\ everSet = {}
    /\ appends = 0
    /\ cycles = 0
    /\ restarts = 0
    /\ halfSwapped = FALSE
    /\ preSwapOK = FALSE
    /\ delRun = NoRun
    /\ cycleSnap = NoSnap
    /\ cycleQuiet = FALSE

\* ---------------------------------------------------------------- foreground
\* Body of Database::set: append to the last log, insert the offset into the
\* last index, push a new log when the last log reached the threshold.
SetOp(ls, is, d, c, key, val, io) ==
    IF ~io
    THEN [logs |-> ls, indices |-> is, disk |-> d, clock |-> c, result |-> RErr]
    ELSE LET tail == ls[Len(ls)]
             off == FileSize(d[tail])
             d1 == AppendRec(d, tail, SetRec(key, val))
             is1 == [is EXCEPT ![Len(is)][key] = Offset(off)]
             roll == FileSize(d1[tail]) >= MAX_FILE_SIZE_BYTES
         IN  [logs |-> IF roll THEN Append(ls, FirstId(c)) ELSE ls,
              indices |-> is1,
              disk |-> IF roll THEN WithFile(d1, FirstId(c)) ELSE d1,
              clock |-> IF roll THEN c + 1 ELSE c,
              result |-> ROk]

\* A delete that refuses a key the last index does not hold.
DeleteOpStrict(ls, is, d, key, io) ==
    IF is[Len(is)][key] = Absent
    THEN [indices |-> is, disk |-> d, result |-> RErr]
    ELSE [indices |-> [is EXCEPT ![Len(is)][key] = Absent],
          disk |-> IF io THEN AppendRec(d, ls[Len(ls)], DeleteRec(key)) ELSE d,
          result |-> IF io THEN ROk ELSE RErr]

\* Body of Database::delete: remove the key from the last index, then append
\* a Delete record to the last log.
DeleteOp(ls, is, d, key, io) ==
    LET is1 == [is EXCEPT ![Len(is)][key] = Absent]
    IN  IF io
        THEN [indices |-> is1,
              disk |-> AppendRec(d, ls[Len(ls)], DeleteRec(key)),
              result |-> ROk]
        ELSE [indices |-> is1, disk |-> d, result |-> RErr]

\* A call starts: self.logs.lock().unwrap().
FgLockLogs ==
    /\ fgpc = "idle"
    /\ ~poisoned
    /\ logsLock = "free"
    /\ logsLock' = "fg"
    /\ fgpc' = "lockIndices"
    /\ cycleQuiet' = FALSE
    /\ cycleSnap' = NoSnap
    /\ UNCHANGED <<store, indicesLock, poisoned, cpc, clocal,
                   expected, everSet, appends, cycles, restarts,
                   halfSwapped, preSwapOK, delRun>>

\* A call on a store whose mutexes are poisoned panics in lock().unwrap():
\* the calling thread unwinds.
FgPanic ==
    /\ fgpc = "idle"
    /\ poisoned
    /\ fgpc' = "panicked"
    /\ delRun' = NoRun
    /\ cycleQuiet' = FALSE
    /\ cycleSnap' = NoSnap
    /\ UNCHANGED <<store, locks, cpc, clocal, expected, everSet,
                   appends, cycles, restarts, halfSwapped, preSwapOK>>

\* self.indices.lock().unwrap().
FgLockIndices ==
    /\ fgpc = "lockIndices"
    /\ indicesLock = "free"
    /\ indicesLock' = "fg"
    /\ fgpc' = "body"
    /\ UNCHANGED <<store, logsLock, poisoned, cpc, clocal, hist>>

\* The call returns and its guards are dropped.
FgReturn ==
    /\ fgpc' = "idle"
    /\ logsLock' = "free"
    /\ indicesLock' = "free"
    /\ UNCHANGED <<poisoned, cpc, clocal, cycles, restarts, halfSwapped,
                   preSwapOK, cycleSnap, cycleQuiet>>

SetBody(key, val, io) ==
    /\ fgpc = "body"
    /\ LET r == SetOp(logs, indices, disk, clock, key, val, io)
       IN  /\ logs' = r.logs
           /\ indices' = r.indices
           /\ disk' = r.disk
           /\ clock' = r.clock
           /\ expected' = IF r.result = ROk
                          THEN [expected EXCEPT ![key] = RSome(val)]
                          ELSE expected
           /\ everSet' = IF r.result = ROk THEN everSet \cup {key}
                         ELSE everSet
           /\ appends' = IF r.result = ROk THEN appends + 1 ELSE appends
    /\ delRun' = NoRun
    /\ FgReturn

DeleteBody(key, io) ==
    /\ fgpc = "body"
    /\ LET r == DeleteOp(logs, indices, disk, key, io)
       IN  /\ indices' = r.indices
           /\ disk' = r.disk
           /\ expected' = IF r.result = ROk
                          THEN [expected EXCEPT ![key] = RNone]
                          ELSE expected
           /\ appends' = IF r.result = ROk THEN appends + 1 ELSE appends
           /\ delRun' = IF r.result # ROk THEN NoRun
                        ELSE IF delRun.key = key
                        THEN [key |-> key, n |-> 2]
                        ELSE [key |-> key, n |-> 1]
    /\ FgReturn
    /\ UNCHANGED <<logs, clock, everSet>>

\* Database::set, the disk accepting the append.
FgSet ==
    /\ appends < MaxAppends
    /\ \E key \in Keys, val \in Values : SetBody(key, val, TRUE)

\* Database::set, the append failing with an I/O error.
FgSetFail == \E key \in Keys, val \in Values : SetBody(key, val, FALSE)

\* Database::get
FgGet ==
    /\ fgpc = "body"
    /\ \E key \in Keys : GetResult(logs, indices, disk, key) \in Results
    /\ delRun' = NoRun
    /\ FgReturn
    /\ UNCHANGED <<store, expected, everSet, appends>>

\* Database::delete, the disk accepting the append.
FgDelete ==
    /\ appends < MaxAppends
    /\ \E key \in Keys : DeleteBody(key, TRUE)

\* Database::delete, the append failing with an I/O error.
FgDeleteFail == \E key \in Keys : DeleteBody(key, FALSE)

\* ---------------------------------------------------------------- restart
\* The replay loop of Database::start bails when the iterator of a log
\* yields an Err item.
StartFails(d) ==
    \E id \in DOMAIN d :
        \E i \in 1..Len(Entries(d[id])) : ~Entries(d[id])[i].ok

Perms(S) ==
    {s \in [1..Cardinality(S) -> S] :
        \A i, j \in 1..Cardinality(S) : i # j => s[i] # s[j]}

\* The process stops and Database::start runs again on the same directory:
\* one log and one replayed index per directory entry, in the order
\* fs::read_dir yields them.
Restart ==
    /\ fgpc \in {"idle", "panicked"}
    /\ fgpc' = IF StartFails(disk) THEN "noStore" ELSE "idle"
    /\ restarts < MaxRestarts
    /\ \E order \in Perms(DOMAIN disk) :
          /\ logs' = order
          /\ indices' = [i \in 1..Len(order) |-> BuildIndex(disk[order[i]])]
    /\ logsLock' = "free"
    /\ indicesLock' = "free"
    /\ poisoned' = FALSE
    /\ cpc' = "sleep"
    /\ cpending' = {}
    /\ cpath' = NoId
    /\ cid' = NoId
    /\ cpos' = 0
    /\ cindex' = EmptyIndex
    /\ restarts' = restarts + 1
    /\ halfSwapped' = FALSE
    /\ preSwapOK' = FALSE
    /\ delRun' = NoRun
    /\ cycleSnap' = NoSnap
    /\ cycleQuiet' = FALSE
    /\ UNCHANGED <<disk, clock, expected, everSet, appends, cycles>>

\* Some record of the directory no longer matches its checksum.
BadRecords(d) ==
    UNION {{<<id, i>> : i \in {j \in 1..Len(d[id]) : d[id][j].crc = "bad"}} :
              id \in DOMAIN d}

\* The storage damages one record between two calls: its bytes change, its
\* length does not.
CorruptRecord ==
    /\ fgpc = "idle"
    /\ Cardinality(BadRecords(disk)) < MaxCorrupt
    /\ \E id \in DOMAIN disk : \E i \in 1..Len(disk[id]) :
          /\ disk[id][i].crc = "ok"
          /\ disk' = [disk EXCEPT ![id][i].crc = "bad"]
    /\ delRun' = NoRun
    /\ UNCHANGED <<logs, indices, clock, locks, fg, cpc, clocal, expected,
                   everSet, appends, cycles, restarts, halfSwapped, preSwapOK,
                   cycleSnap, cycleQuiet>>

\* ---------------------------------------------------------------- compactor
\* entries of compact_logs: the latest operation per key of a scanned file.
LatestOps(es) ==
    [k \in Keys |->
        IF \E i \in 1..Len(es) : es[i].key = k
        THEN LET i == CHOOSE j \in 1..Len(es) :
                          /\ es[j].key = k
                          /\ \A m \in (j + 1)..Len(es) : es[m].key # k
             IN  [op |-> es[i].op, val |-> es[i].val]
        ELSE [op |-> "None", val |-> NoVal]]

\* should_compact: some insert into entries replaced an earlier one.
ShouldCompact(es) ==
    \E i, j \in 1..Len(es) : i < j /\ es[i].key = es[j].key

RecOf(k, e) == [key |-> k, op |-> e.op, val |-> e.val, crc |-> "ok"]

RECURSIVE AppendAll(_, _, _, _)
AppendAll(d, id, order, es) ==
    IF order = <<>> THEN d
    ELSE AppendAll(AppendRec(d, id, RecOf(Head(order), es[Head(order)])),
                   id, Tail(order), es)

CompactorHist ==
    /\ delRun' = NoRun
    /\ UNCHANGED <<expected, everSet, appends, restarts>>

\* A compactor that takes the logs lock before it reads the directory.
CompactorWakeLocked ==
    /\ cpc = "sleep"
    /\ cycles < MaxCycles
    /\ logsLock = "free"
    /\ logsLock' = "compactor"
    /\ cpc' = "iter"
    /\ cpending' = DOMAIN disk
    /\ cycles' = cycles + 1
    /\ cycleQuiet' = (fgpc = "idle")
    /\ cycleSnap' = IF fgpc = "idle" THEN [k \in Keys |-> GetOutcome(k)]
                    ELSE NoSnap
    /\ CompactorHist
    /\ UNCHANGED <<store, indicesLock, poisoned, fg, cpath, cid, cpos, cindex,
                   halfSwapped, preSwapOK>>

\* thread::sleep returns and fs::read_dir opens the directory.
CompactorWake ==
    /\ cpc = "sleep"
    /\ cycles < MaxCycles
    /\ cpc' = "iter"
    /\ cpending' = DOMAIN disk
    /\ cycles' = cycles + 1
    /\ cycleQuiet' = (fgpc = "idle")
    /\ cycleSnap' = IF fgpc = "idle" THEN [k \in Keys |-> GetOutcome(k)]
                    ELSE NoSnap
    /\ CompactorHist
    /\ UNCHANGED <<store, locks, fg, cpath, cid, cpos, cindex,
                   halfSwapped, preSwapOK>>

\* Next directory entry without repeated keys: scanned and left alone.
CompactorSkip ==
    /\ cpc = "iter"
    /\ \E p \in cpending :
          /\ ~ShouldCompact(Entries(disk[p]))
          /\ cpending' = cpending \ {p}
    /\ CompactorHist
    /\ UNCHANGED <<store, locks, fg, cpc, cpath, cid, cpos, cindex, cycles,
                   halfSwapped, preSwapOK, cycleSnap, cycleQuiet>>

\* Next directory entry with a repeated key: scanned into entries, then
\* Log::new_with_id(source_id.increment()) and one append per entry, in the
\* iteration order of the HashMap.
CompactorRewrite ==
    /\ cpc = "iter"
    /\ \E p \in cpending :
          LET es == Entries(disk[p])
              entries == LatestOps(es)
              present == {k \in Keys : entries[k].op # "None"}
              id == Increment(p)
          IN  /\ ShouldCompact(es)
              /\ cpending' = cpending \ {p}
              /\ cpath' = p
              /\ cid' = id
              /\ \E order \in Perms(present) :
                    disk' = AppendAll(WithFile(disk, id), id, order, entries)
    /\ cpc' = "lockLogs"
    /\ CompactorHist
    /\ UNCHANGED <<logs, indices, clock, locks, fg, cpos, cindex, cycles,
                   halfSwapped, preSwapOK, cycleSnap, cycleQuiet>>

\* The directory iterator is exhausted: back to thread::sleep.
CompactorCycleEnd ==
    /\ cpc = "iter"
    /\ cpending = {}
    /\ cpc' = "sleep"
    /\ CompactorHist
    /\ UNCHANGED <<store, locks, fg, clocal, cycles, halfSwapped, preSwapOK,
                   cycleSnap, cycleQuiet>>

\* The thread ends: its locals are gone.
CompactorEnds(pc) ==
    /\ cpc' = pc
    /\ cpending' = {}
    /\ cpath' = NoId
    /\ cid' = NoId
    /\ cpos' = 0
    /\ cindex' = EmptyIndex
    /\ preSwapOK' = FALSE

\* An I/O error outside the locks (read_dir, File::open, new_with_id,
\* append): compact_logs returns Err and the thread ends.
CompactorFail ==
    /\ cpc = "iter"
    /\ CompactorEnds("exited")
    /\ CompactorHist
    /\ UNCHANGED <<store, locks, fg, cycles, halfSwapped, cycleSnap,
                   cycleQuiet>>

\* A compactor that takes the indices lock first.
CompactorLockIndicesFirst ==
    /\ cpc = "lockLogs"
    /\ indicesLock = "free"
    /\ indicesLock' = "compactor"
    /\ cpc' = "lockIndices"
    /\ CompactorHist
    /\ UNCHANGED <<store, logsLock, poisoned, fg, clocal, cycles,
                   halfSwapped, preSwapOK, cycleSnap, cycleQuiet>>

\* logs.lock().unwrap()
CompactorLockLogs ==
    /\ cpc = "lockLogs"
    /\ logsLock = "free"
    /\ logsLock' = "compactor"
    /\ cpc' = "lockIndices"
    /\ CompactorHist
    /\ UNCHANGED <<store, indicesLock, poisoned, fg, clocal, cycles,
                   halfSwapped, preSwapOK, cycleSnap, cycleQuiet>>

InLogs(p) == \E i \in 1..Len(logs) : logs[i] = p

\* indices.lock().unwrap(); position(..).unwrap() finds the source; the
\* index of the compacted log is built by a scan of its file.
CompactorLockIndices ==
    /\ cpc = "lockIndices"
    /\ indicesLock = "free"
    /\ InLogs(cpath)
    /\ indicesLock' = "compactor"
    /\ cpos' = CHOOSE i \in 1..Len(logs) :
                  logs[i] = cpath /\ \A j \in 1..(i - 1) : logs[j] # cpath
    /\ cindex' = BuildIndex(disk[cid])
    /\ cpc' = "swapLogs"
    /\ preSwapOK' = \A k \in Keys :
                       GetResult(logs, indices, disk, k) = expected[k]
    /\ CompactorHist
    /\ UNCHANGED <<store, logsLock, poisoned, fg, cpending, cpath, cid,
                   cycles, halfSwapped, cycleSnap, cycleQuiet>>

\* indices.lock().unwrap(); position(..).unwrap() panics: the source path
\* is not in the list. The guards are dropped during the unwind, which
\* poisons both mutexes.
CompactorLocatePanic ==
    /\ cpc = "lockIndices"
    /\ indicesLock = "free"
    /\ ~InLogs(cpath)
    /\ CompactorEnds("panicked")
    /\ poisoned' = TRUE
    /\ logsLock' = "free"
    /\ indicesLock' = "free"
    /\ CompactorHist
    /\ UNCHANGED <<store, fg, cycles, halfSwapped, cycleSnap, cycleQuiet>>

\* A swap that gives the locks up between its two assignments.
CompactorSwapLogsUnlocked ==
    /\ cpc = "swapLogs"
    /\ logs' = [logs EXCEPT ![cpos] = cid]
    /\ cpc' = "swapIndices"
    /\ logsLock' = "free"
    /\ indicesLock' = "free"
    /\ CompactorHist
    /\ UNCHANGED <<disk, indices, clock, poisoned, fg, clocal, cycles,
                   halfSwapped, preSwapOK, cycleSnap, cycleQuiet>>

\* logs[pos] = compacted_log
CompactorSwapLogs ==
    /\ cpc = "swapLogs"
    /\ logs' = [logs EXCEPT ![cpos] = cid]
    /\ cpc' = "swapIndices"
    /\ CompactorHist
    /\ UNCHANGED <<disk, indices, clock, locks, fg, clocal, cycles,
                   halfSwapped, preSwapOK, cycleSnap, cycleQuiet>>

\* indices[pos] = index, then both guards go out of scope.
CompactorSwapIndices ==
    /\ cpc = "swapIndices"
    /\ cpos <= Len(indices)
    /\ indices' = [indices EXCEPT ![cpos] = cindex]
    /\ cpc' = "iter"
    /\ logsLock' = "free"
    /\ indicesLock' = "free"
    /\ cpath' = NoId
    /\ cid' = NoId
    /\ cpos' = 0
    /\ cindex' = EmptyIndex
    /\ preSwapOK' = FALSE
    /\ CompactorHist
    /\ UNCHANGED <<disk, logs, clock, poisoned, fg, cpending, cycles,
                   halfSwapped, cycleSnap, cycleQuiet>>

\* indices[pos] is out of bounds: the assignment panics after logs[pos] was
\* replaced; the unwind poisons both mutexes.
CompactorSwapIndicesPanic ==
    /\ cpc = "swapIndices"
    /\ cpos > Len(indices)
    /\ CompactorEnds("panicked")
    /\ poisoned' = TRUE
    /\ halfSwapped' = TRUE
    /\ logsLock' = "free"
    /\ indicesLock' = "free"
    /\ CompactorHist
    /\ UNCHANGED <<store, fg, cycles, cycleSnap, cycleQuiet>>

\* ---------------------------------------------------------------- system
Foreground ==
    \/ FgLockLogs
    \/ FgLockIndices
    \/ FgSet
    \/ FgGet
    \/ FgDelete

Faults ==
    \/ FgSetFail
    \/ FgDeleteFail
    \/ CompactorFail

Compactor ==
    \/ CompactorWake
    \/ CompactorSkip
    \/ CompactorRewrite
    \/ CompactorCycleEnd
    \/ CompactorLockLogs
    \/ CompactorLockIndices
    \/ CompactorLocatePanic
    \/ CompactorSwapLogs
    \/ CompactorSwapIndices
    \/ CompactorSwapIndicesPanic

Next == Foreground \/ FgPanic \/ Compactor \/ Faults \/ Restart

Spec == Init /\ [][Next]_vars

\* The running store: foreground calls and the compactor thread.
NextLive == Foreground \/ FgPanic \/ Compactor

SpecLive == Init /\ [][NextLive]_vars

\* The store across restarts, the compactor asleep.
NextBoot == Foreground \/ Restart

SpecBoot == Init /\ [][NextBoot]_vars

\* The store with a disk that can refuse an append of the foreground.
NextFault == Foreground \/ FgSetFail \/ FgDeleteFail

SpecFault == Init /\ [][NextFault]_vars

\* The running store with a compactor whose directory and file operations
\* can fail.
NextCompactFault == Foreground \/ FgPanic \/ Compactor \/ CompactorFail

SpecCompactFault == Init /\ [][NextCompactFault]_vars

\* The store across restarts on a directory whose records can be damaged,
\* the compactor asleep.
NextCorrupt == Foreground \/ CorruptRecord \/ Restart

SpecCorrupt == Init /\ [][NextCorrupt]_vars

TypeOK ==
    /\ Len(logs) >= 1
    /\ \A i \in 1..Len(logs) : logs[i] \in DOMAIN disk
    /\ Len(indices) <= Len(logs)
    /\ logsLock \in {"free", "fg", "compactor"}
    /\ indicesLock \in {"free", "fg", "compactor"}
    /\ appends <= MaxAppends

\* ---------------------------------------------------------------- claims
\* C1: read-your-writes. On a store that was not restarted, a get(k) issued
\* after the most recent set(k, v), with no later delete(k), returns
\* Some(v), also after the tail reached the rollover threshold.
C1_ReadYourWrites ==
    restarts = 0 =>
        \A k \in Keys :
            expected[k].tag = "Some" => GetOutcome(k) = expected[k]

\* C2: delete shadows. After set(k, v) and a later delete(k), get(k)
\* returns None, however many older segments hold a Set record for k
\* (stated for stores whose lists are in id order and of equal length).
C2_DeleteShadows ==
    (/\ \A i \in 1..(Len(logs) - 1) : IdLess(logs[i], logs[i + 1])
     /\ Len(indices) = Len(logs)) =>
        \A k \in Keys :
            (k \in everSet /\ expected[k] = RNone) => GetOutcome(k) = RNone

\* C3: durability. Right after a restart on the same directory, get(k)
\* returns Some(v) for every key whose last completed write is set(k, v).
C3_Durability ==
    [][restarts' = restarts + 1 =>
          \A k \in Keys :
              expected[k].tag = "Some" => GetOutcome(k)' = expected[k]]_vars

\* C4: compaction preserves state. A compaction cycle during which no
\* foreground call ran leaves every get result as it was when the cycle
\* started (stated for stores whose lists have equal length).
C4_CompactionPreserves ==
    (/\ cycleQuiet
     /\ cpc \in {"sleep", "panicked"}
     /\ Len(indices) = Len(logs)) =>
        \A k \in Keys : GetOutcome(k) = cycleSnap[k]

\* C5: compaction is invisible to foreground traffic. When every get
\* returned the result of the latest completed set/delete of its key as the
\* compactor took the locks, every get does so after the swap, whatever
\* calls completed between the compactor's scan and the swap (stated for
\* stores whose lists have equal length).
C5_SwapInvisible ==
    [][(/\ cpc = "swapIndices"
        /\ cpc' = "iter"
        /\ preSwapOK
        /\ Len(indices) = Len(logs)) =>
          \A k \in Keys : GetOutcome(k)' = expected[k]]_vars

\* C6: the swap is atomic. No foreground call runs its body while the log at
\* a position is replaced and the index at that position is not, and both
\* assignments of the swap are made holding both locks.
C6_SwapAtomic ==
    /\ fgpc = "body" => (cpc # "swapIndices" /\ ~halfSwapped)
    /\ cpc \in {"swapLogs", "swapIndices"} =>
          (logsLock = "compactor" /\ indicesLock = "compactor")

\* A foreground call runs its body on a list that holds a compacted
\* successor.
C6_Witness ==
    /\ fgpc = "body"
    /\ \E i \in 1..Len(logs) : logs[i][2] > 0

\* C7: delete is idempotent. A delete(k) that directly follows a completed
\* delete(k) succeeds, appends one Delete record to the tail log and leaves
\* the result of get unchanged for every key.
C7_DeleteIdempotent ==
    [][(delRun.n >= 1 /\ DeleteBody(delRun.key, TRUE)) =>
          /\ appends' = appends + 1
          /\ logs' = logs
          /\ disk' = AppendRec(disk, logs[Len(logs)], DeleteRec(delRun.key))
          /\ \A k \in Keys : GetOutcome(k)' = GetOutcome(k)]_vars

\* A second delete of the same key has completed.
C7_Witness == delRun.n = 2

\* C8: a compactor failure never reaches foreground callers and never
\* leaves the lists half swapped: no call panics, the mutexes are never
\* poisoned, and no swap stops between its two assignments.
C8_CompactorIsolated ==
    /\ fgpc # "panicked"
    /\ ~poisoned
    /\ ~halfSwapped

\* C9: monotonic segment ids. The log list is sorted by id, ascending.
C9_SortedIds ==
    \A i \in 1..(Len(logs) - 1) : IdLess(logs[i], logs[i + 1])

\* C10: store-state invariant. The log list and the index list are
\* non-empty and have the same length.
C10_ParallelLists ==
    /\ Len(logs) >= 1
    /\ Len(indices) = Len(logs)

\* C11: keydir/segment agreement. At every list position the index equals
\* the replay of the log at that position: Offset(o) where the last record
\* of the key is a Set at o, Tombstone where it is a Delete, no entry where
\* the log has no record of the key (stated for stores whose lists have
\* equal length, between foreground calls).
C11_KeydirAgreement ==
    (fgpc = "idle" /\ Len(indices) = Len(logs)) =>
        \A i \in 1..Len(logs) : indices[i] = BuildIndex(disk[logs[i]])

\* C12: get(k) never returns a value taken from a record of another key:
\* whenever get(k) returns Some(v), the record it read is a Set record of k.
C12_GetChecksKey ==
    \A k \in Keys :
        GetResult(logs, indices, disk, k).tag = "Some" =>
            GetKeyFrom(logs, indices, disk, k, 0) = k

\* C13: state unchanged on write failure. A set or delete whose append
\* fails with an I/O error leaves every index exactly as it was before the
\* call.
C13_FailedWriteKeepsIndices ==
    [][(FgSetFail \/ FgDeleteFail) => indices' = indices]_vars

\* C14: the swap skips a missing source. When the compactor holds a
\* replacement for a path that is no longer in the log list, its next step
\* leaves both lists unchanged and goes on to the next directory entry.
C14_SwapSkipsMissing ==
    [][(cpc = "lockIndices" /\ ~InLogs(cpath) /\ cpc' # cpc) =>
          /\ cpc' = "iter"
          /\ logs' = logs
          /\ indices' = indices
          /\ ~poisoned']_vars

\* C15: compactor retry. A failed scan or write while compacting a segment
\* aborts that segment only: right after the failure the compactor thread
\* is still in its cycle or asleep before the next one, never ended.
C15_CompactorRetries ==
    [][CompactorFail => cpc' \in {"iter", "sleep"}]_vars

\* C16: corruption during the bootstrap scan is reported. Database::start on
\* a directory that holds a record with a checksum mismatch fails: it never
\* hands out a store whose indices were built from the records before the
\* damaged one.
C16_CorruptionReported ==
    [][(restarts' = restarts + 1 /\ BadRecords(disk) # {}) =>
          fgpc' = "noStore"]_vars

\* C17: the compactor holds neither lock while it enumerates the directory,
\* scans a source or writes the replacement: in every such state both locks
\* are free or held by the foreground call, the mutexes are not poisoned,
\* and a foreground call finds the lock it needs next free.
C17_CompactorScansUnlocked ==
    cpc \in {"iter", "lockLogs"} =>
        /\ logsLock # "compactor"
        /\ indicesLock # "compactor"
        /\ ~poisoned
        /\ fgpc = "idle" => logsLock = "free"
        /\ fgpc = "lockIndices" => indicesLock = "free"

\* A foreground call runs its body while the compactor has written a
\* replacement and not yet taken the locks.
C17_Witness ==
    /\ cpc = "lockLogs"
    /\ fgpc = "body"

\* C18: deadlock freedom. Every thread takes the logs lock first and the
\* indices lock second and gives both up when its call or swap ends: the
\* holder of the indices lock holds the logs lock, a thread outside a call
\* or swap holds no lock, and the two threads never wait for each other.
C18_LockOrder ==
    LET fgWaits == \/ fgpc = "idle" /\ logsLock = "compactor"
                   \/ fgpc = "lockIndices" /\ indicesLock = "compactor"
        cWaits == \/ cpc = "lockLogs" /\ logsLock = "fg"
                  \/ cpc = "lockIndices" /\ indicesLock = "fg"
    IN  /\ indicesLock # "free" => logsLock = indicesLock
        /\ fgpc \in {"idle", "panicked"} =>
              (logsLock # "fg" /\ indicesLock # "fg")
        /\ cpc \in {"sleep", "iter", "lockLogs", "panicked"} =>
              (logsLock # "compactor" /\ indicesLock # "compactor")
        /\ fgpc \in {"lockIndices", "body"} => logsLock = "fg"
        /\ cpc \in {"lockIndices", "swapLogs", "swapIndices"} =>
              logsLock = "compactor"
        /\ ~(fgWaits /\ cWaits)

\* The compactor waits for the logs lock while a foreground call, holding
\* it, is about to take the indices lock.
C18_Witness ==
    /\ cpc = "lockLogs"
    /\ fgpc = "lockIndices"
    /\ logsLock = "fg"

\* C19: restart equivalence. The indices rebuilt by the replay of
\* Database::start equal the indices the store held before the restart, and
\* every get returns the same result before and after it (stated for
\* restarts of a store whose lists have equal length and whose directory is
\* read in the order of the log list).
C19_RestartEquivalence ==
    [][(/\ restarts' = restarts + 1
        /\ Len(indices) = Len(logs)
        /\ logs' = logs) =>
          /\ indices' = indices
          /\ \A k \in Keys : GetOutcome(k)' = GetOutcome(k)]_vars

\* C20: compaction converges. Once a cycle has replaced a segment, so that
\* every replaced position of the log list holds exactly the latest record
\* per key of its source and no other listed log has a repeated key, a
\* cycle without foreground calls is a no-op: no step of the compactor
\* before a swap changes a file or a list, and none kills the thread.
C20_CompactionConverges ==
    [][LET Source(id) == <<id[1], id[2] - 1>>
           Compacted(id) ==
               /\ Source(id) \in DOMAIN disk
               /\ LET latest == LatestOps(Entries(disk[Source(id)]))
                      present == {k \in Keys : latest[k].op # "None"}
                  IN  /\ Len(disk[id]) = Cardinality(present)
                      /\ \A j \in 1..Len(disk[id]) :
                            disk[id][j] =
                                RecOf(disk[id][j].key, latest[disk[id][j].key])
           Settled ==
               /\ \E i \in 1..Len(logs) : logs[i][2] > 0
               /\ \A i \in 1..Len(logs) :
                     IF logs[i][2] > 0 THEN Compacted(logs[i])
                     ELSE ~ShouldCompact(Entries(disk[logs[i]]))
       IN  (/\ cycleQuiet'
            /\ cpc \in {"iter", "lockLogs", "lockIndices"}
            /\ Settled) =>
               /\ disk' = disk
               /\ logs' = logs
               /\ indices' = indices
               /\ cpc' # "panicked"
               /\ ~poisoned']_vars

====
